---------------------------- MODULE Spec2Model ----------------------------
(***************************************************************************)
(* Model of the LoRaWAN backend-interfaces client (backend/client.go).     *)
(*                                                                         *)
(* A client is built once by NewClient and then serves request operations  *)
(* (PRStartReq, PRStopReq, XmitDataReq, ProfileReq, HomeNSReq) issued by    *)
(* concurrent callers.  In sync mode the HTTP response body is the answer; *)
(* in async mode (a Redis client is configured) the answer is delivered by *)
(* a Redis publish on a key built from the message type and the            *)
(* transaction id, and a listener goroutine per request waits for it with  *)
(* a timeout.  HandleAsync<Op>Ans is the publishing side.                   *)
(*                                                                         *)
(* Strings that the code formats (message types, keys) are sequences of    *)
(* one-character strings, so that formatting is modelled by what it does.  *)
(***************************************************************************)
EXTENDS Integers, Sequences, FiniteSets, TLC

(***************************************************************************)
(* Bounds of the model.                                                    *)
(***************************************************************************)
\* transaction ids are TidStep * i for i in 0..MaxTidIdx
MaxTidIdx == 1
\* the configured AsyncTimeout, in clock ticks
AsyncTimeout == 2
\* number of HandleAsync<Op>Ans calls in one behaviour
MaxPublish == 2

TidStep == 21

\* the callers that issue one request operation each, concurrently
Reqs == {"r1", "r2"}
\* the caller of the behaviours with one request
Solo == {"r1"}

\* the uint32 transaction ids the callers use (no arithmetic is done on them)
TIDs == { TidStep * i : i \in 0..MaxTidIdx }

(***************************************************************************)
(* Message types and result codes (declared elsewhere in package backend). *)
(***************************************************************************)
PRStartReq == <<"P","R","S","t","a","r","t","R","e","q">>
PRStopReq == <<"P","R","S","t","o","p","R","e","q">>
XmitDataReq == <<"X","m","i","t","D","a","t","a","R","e","q">>
ProfileReq == <<"P","r","o","f","i","l","e","R","e","q">>
HomeNSReq == <<"H","o","m","e","N","S","R","e","q">>
PRStartAns == <<"P","R","S","t","a","r","t","A","n","s">>
PRStopAns == <<"P","R","S","t","o","p","A","n","s">>
XmitDataAns == <<"X","m","i","t","D","a","t","a","A","n","s">>
ProfileAns == <<"P","r","o","f","i","l","e","A","n","s">>
HomeNSAns == <<"H","o","m","e","N","S","A","n","s">>

Success == "Success"
ProtocolVersion1_0 == "1.0"

\* the five operations of the Client interface
Ops == {"PRStart", "PRStop", "XmitData", "Profile", "HomeNS"}

\* the result (code, description) pairs an answer is drawn from
Results == { [ResultCode |-> Success, Description |-> ""],
             [ResultCode |-> "500", Description |-> "server error"],
             [ResultCode |-> "MICFailed", Description |-> "bad mic"] }

\* the results of the answers given to HandleAsync<Op>Ans
PubResults == { res \in Results : res.ResultCode \in {Success, "500"} }

(***************************************************************************)
(* Payloads, bodies and errors.                                            *)
(***************************************************************************)
ZeroAns == [MessageType |-> <<>>, TransactionID |-> 0,
            Result |-> [ResultCode |-> "", Description |-> ""]]

\* an answer payload as a caller of HandleAsync<Op>Ans or a peer builds it
AnsPayload(typ, tid, res) ==
  [MessageType |-> typ, TransactionID |-> tid, Result |-> res]

\* the type tag an answer of operation op carries in its own base payload
AnsTypeOf(op) ==
  CASE op = "PRStart" -> PRStartAns
    [] op = "PRStop" -> PRStopAns
    [] op = "XmitData" -> XmitDataAns
    [] op = "Profile" -> ProfileAns
    [] op = "HomeNS" -> HomeNSAns

\* json.Marshal of an answer: a well-formed document with the answer's fields
Marshal(ans) ==
  [wf |-> TRUE, typ |-> ans.MessageType, tid |-> ans.TransactionID,
   code |-> ans.Result.ResultCode, desc |-> ans.Result.Description]

\* a body that is no JSON document (an empty acknowledgement, garbage)
Malformed == [wf |-> FALSE, typ |-> <<>>, tid |-> 0, code |-> "", desc |-> ""]

NoErr == [kind |-> "nil", code |-> "", desc |-> ""]
Err(kind) == [kind |-> kind, code |-> "", desc |-> ""]
ErrAsyncTimeout == Err("async timeout")

\* json.Unmarshal(bb, ans): the decoded answer, or a decode error
Unmarshal(bb) ==
  IF bb.wf
    THEN [ans |-> [MessageType |-> bb.typ, TransactionID |-> bb.tid,
                   Result |-> [ResultCode |-> bb.code, Description |-> bb.desc]],
          err |-> NoErr]
    ELSE [ans |-> ZeroAns, err |-> Err("unmarshal response error")]

(***************************************************************************)
(* getAsyncKey: fmt.Sprintf("lora:backend:async:%s:%d", typ, id).          *)
(***************************************************************************)
DigitChar(d) == <<"0","1","2","3","4","5","6","7","8","9">>[d + 1]

\* variant: only the last decimal digit of the id is printed
Dec_LastDigit(n) == <<DigitChar(n % 10)>>

RECURSIVE Dec(_)
Dec(n) == IF n < 10 THEN <<DigitChar(n)>> ELSE Dec(n \div 10) \o <<DigitChar(n % 10)>>

KeyPrefix ==
  <<"l","o","r","a",":","b","a","c","k","e","n","d",":","a","s","y","n","c",":">>

\* variant: the transaction id is left out of the key
getAsyncKey_NoId(typ, id) == KeyPrefix \o typ

getAsyncKey(typ, id) == KeyPrefix \o typ \o <<":">> \o Dec(id)


(***************************************************************************)
(* Client construction.                                                    *)
(***************************************************************************)
\* the configurations NewClient is called with; tls stands for a non-empty
\* CACert / TLSCert / TLSKey whose files load
Configs ==
  [SenderID : {"010203"}, ReceiverID : {"060708"}, tls : BOOLEAN,
   RedisClient : BOOLEAN, AsyncTimeout : {AsyncTimeout}]

NewClient(config) ==
  IF ~config.tls
    THEN [senderID |-> config.SenderID, receiverID |-> config.ReceiverID,
          protocolVersion |-> ProtocolVersion1_0,
          redisClient |-> config.RedisClient,
          asyncTimeout |-> config.AsyncTimeout]
    ELSE [senderID |-> "", receiverID |-> "", protocolVersion |-> "",
          redisClient |-> FALSE, asyncTimeout |-> 0]

GetSenderID(cl) == cl.senderID
GetReceiverID(cl) == cl.receiverID
IsAsync(cl) == cl.redisClient

(***************************************************************************)
(* The request operations.                                                 *)
(***************************************************************************)
\* the message type <Op>Req stamps on the request
ReqTypeOf(op) ==
  CASE op = "PRStart" -> PRStartReq
    [] op = "PRStop" -> PRStopReq
    [] op = "XmitData" -> XmitDataReq
    [] op = "Profile" -> ProfileReq
    [] op = "HomeNS" -> HomeNSReq

\* variant: the handler passes the type tag of the answer
HandleTypeOf_AnsType(op) == AnsTypeOf(op)

\* the message type HandleAsync<Op>Ans passes to writeAsync
HandleTypeOf(op) ==
  CASE op = "PRStart" -> PRStartReq
    [] op = "PRStop" -> PRStopReq
    [] op = "XmitData" -> XmitDataReq
    [] op = "Profile" -> ProfileReq
    [] op = "HomeNS" -> HomeNSReq

\* <Op>Req, before the call of request: the base payload is overwritten
Stamp(cl, op, tid, marshals) ==
  [op |-> op, ProtocolVersion |-> cl.protocolVersion, SenderID |-> cl.senderID,
   ReceiverID |-> cl.receiverID, MessageType |-> ReqTypeOf(op),
   TransactionID |-> tid, marshals |-> marshals]

\* variant: the failure does not carry the answer's description
CheckResult_NoDesc(ans, err) ==
  IF err # NoErr THEN [ans |-> ans, err |-> err]
  ELSE IF ans.Result.ResultCode # Success
    THEN [ans |-> ans,
          err |-> [kind |-> "response error", code |-> ans.Result.ResultCode,
                   desc |-> ""]]
    ELSE [ans |-> ans, err |-> NoErr]

\* <Op>Req, after the call of request: (ans, err) returned to the caller
CheckResult(ans, err) ==
  IF err # NoErr THEN [ans |-> ans, err |-> err]
  ELSE IF ans.Result.ResultCode # Success
    THEN [ans |-> ans,
          err |-> [kind |-> "response error", code |-> ans.Result.ResultCode,
                   desc |-> ans.Result.Description]]
    ELSE [ans |-> ans, err |-> NoErr]

\* the tail of request: what the final select makes of a received value
SelectErr(e) == [ans |-> ZeroAns, err |-> e]
SelectBody(bb) == Unmarshal(bb)

(***************************************************************************)
(* State.                                                                  *)
(***************************************************************************)
VARIABLES
  cfg,           \* the ClientConfig given to NewClient
  c,             \* the client NewClient returned
  pc,            \* per caller: position in <Op>Req / request
  pl,            \* per caller: the stamped request payload
  key,           \* per caller: the correlation key computed by request
  ctx,           \* per caller: the caller's context
  lpc,           \* per caller: position of the listener goroutine
  subCh,         \* per caller: messages delivered to the subscription's channel
  elapsed,       \* per caller: ticks since time.After was called
  lres,          \* per caller: what readAsync returned
  rcvd,          \* per caller: the Redis message readAsync received
  responseChan,  \* per caller: chan []byte of capacity 1
  errorChan,     \* per caller: chan error of capacity 1
  resp,          \* per caller: the HTTP response of the POST
  ret,           \* per caller: (ans, err) returned by <Op>Req
  win,           \* per caller: payloads published on its key in its window
                 \* (recorded in the behaviours of one caller)
  npub,          \* number of HandleAsync<Op>Ans calls so far
  lastPub        \* the last HandleAsync<Op>Ans call: the fate of its publish,
                 \* the error it returned, the callers that
                 \* waited for that answer and the callers it was delivered to
                 \* (recorded in the behaviours of one caller)

vars == <<cfg, c, pc, pl, key, ctx, lpc, subCh, elapsed, lres, rcvd,
          responseChan, errorChan, resp, ret, win, npub, lastPub>>

NoPl == [op |-> "", ProtocolVersion |-> "", SenderID |-> "", ReceiverID |-> "",
         MessageType |-> <<>>, TransactionID |-> 0, marshals |-> TRUE]
NoMsg == [Channel |-> <<>>, Payload |-> Malformed]
NoResp == [StatusCode |-> 0, Body |-> Malformed, readErr |-> FALSE]
NoRet == [ans |-> ZeroAns, err |-> Err("pending")]
NoLres == [bb |-> Malformed, err |-> Err("pending")]
NoPub == [fate |-> "none", err |-> Err("pending"), subs |-> {}, to |-> {}]
CtxLive == [done |-> FALSE, early |-> FALSE]

ChanCap == 1

Init ==
  /\ cfg \in Configs
  /\ c = NewClient(cfg)
  /\ pc = [r \in Reqs |-> "idle"]
  /\ pl = [r \in Reqs |-> NoPl]
  /\ key = [r \in Reqs |-> <<>>]
  /\ ctx = [r \in Reqs |-> CtxLive]
  /\ lpc = [r \in Reqs |-> "none"]
  /\ subCh = [r \in Reqs |-> <<>>]
  /\ elapsed = [r \in Reqs |-> 0]
  /\ lres = [r \in Reqs |-> NoLres]
  /\ rcvd = [r \in Reqs |-> NoMsg]
  /\ responseChan = [r \in Reqs |-> <<>>]
  /\ errorChan = [r \in Reqs |-> <<>>]
  /\ resp = [r \in Reqs |-> NoResp]
  /\ ret = [r \in Reqs |-> NoRet]
  /\ win = [r \in Reqs |-> {}]
  /\ npub = 0
  /\ lastPub = NoPub

(***************************************************************************)
(* request, the calling goroutine.                                         *)
(***************************************************************************)
\* <Op>Req up to the POST: stamp the payload and marshal it; when
\* json.Marshal rejects the payload (marshals is FALSE) request returns the
\* wrapped error and <Op>Req returns it; otherwise make the two channels and,
\* in async mode, compute the key and start the listener goroutine
Call(r, op, tid, marshals) ==
  /\ pc[r] = "idle"
  /\ pl' = [pl EXCEPT ![r] = Stamp(c, op, tid, marshals)]
  /\ IF ~marshals
       THEN /\ ret' = [ret EXCEPT ![r] =
                         CheckResult(ZeroAns, Err("json marshal error"))]
            /\ pc' = [pc EXCEPT ![r] = "returned"]
            /\ UNCHANGED <<responseChan, errorChan, key, lpc>>
       ELSE /\ responseChan' = [responseChan EXCEPT ![r] = <<>>]
            /\ errorChan' = [errorChan EXCEPT ![r] = <<>>]
            /\ IF IsAsync(c)
                 THEN /\ key' = [key EXCEPT ![r] =
                                   getAsyncKey(pl'[r].MessageType,
                                               pl'[r].TransactionID)]
                      /\ lpc' = [lpc EXCEPT ![r] = "spawned"]
                 ELSE UNCHANGED <<key, lpc>>
            /\ pc' = [pc EXCEPT ![r] = "post"]
            /\ UNCHANGED ret
  /\ UNCHANGED <<cfg, c, ctx, subCh, elapsed, lres, rcvd, resp, win,
                 npub, lastPub>>

\* httpClient.Post is entered: the request leaves for the peer
PostIssue(r) ==
  /\ pc[r] = "post"
  /\ pc' = [pc EXCEPT ![r] = "inflight"]
  /\ UNCHANGED <<cfg, c, pl, key, ctx, lpc, subCh, elapsed, lres, rcvd,
                 responseChan, errorChan, resp, ret, win, npub, lastPub>>

\* variant: after a failed POST request goes on to the final select
PostFail_Race(r) ==
  /\ pc[r] = "inflight"
  /\ pc' = [pc EXCEPT ![r] = "select"]
  /\ UNCHANGED <<cfg, c, pl, key, ctx, lpc, subCh, elapsed, lres, rcvd,
                 responseChan, errorChan, resp, ret, win, npub, lastPub>>

\* variant: the error of the POST is sent on errorChan for the final select
PostFail_ViaChan(r) ==
  /\ pc[r] = "inflight"
  /\ Len(errorChan[r]) < ChanCap
  /\ errorChan' = [errorChan EXCEPT ![r] = Append(@, Err("http post error"))]
  /\ pc' = [pc EXCEPT ![r] = "select"]
  /\ UNCHANGED <<cfg, c, pl, key, ctx, lpc, subCh, elapsed, lres, rcvd,
                 responseChan, resp, ret, win, npub, lastPub>>

\* httpClient.Post returns an error: request returns it, wrapped
PostFail(r) ==
  /\ pc[r] = "inflight"
  /\ ret' = [ret EXCEPT ![r] = CheckResult(ZeroAns, Err("http post error"))]
  /\ pc' = [pc EXCEPT ![r] = "returned"]
  /\ UNCHANGED <<cfg, c, pl, key, ctx, lpc, subCh, elapsed, lres, rcvd,
                 responseChan, errorChan, resp, win, npub, lastPub>>

\* the responses the peer's HTTP endpoint gives: to a sync client an answer
\* of any transaction id and result or a body that does not decode, with any
\* status; to an async client an acknowledgement, empty or an answer
Statuses == {200, 500}

Responses(cl, r) ==
  IF IsAsync(cl)
    THEN { [StatusCode |-> 200, Body |-> Malformed, readErr |-> FALSE],
           [StatusCode |-> 500, readErr |-> FALSE,
            Body |-> Marshal(AnsPayload(AnsTypeOf(pl[r].op), pl[r].TransactionID,
                                        [ResultCode |-> Success,
                                         Description |-> ""]))] }
    ELSE [StatusCode : Statuses,
          Body : {Malformed} \cup
                 { Marshal(AnsPayload(AnsTypeOf(pl[r].op), t, res)) :
                     t \in TIDs, res \in Results },
          readErr : BOOLEAN]

\* variant: a status other than 200 is taken for a failure
ReadAll_StatusChecked(response) ==
  IF response.readErr \/ response.StatusCode # 200
    THEN [chan |-> "error", err |-> Err("read body"), bb |-> Malformed]
    ELSE [chan |-> "response", err |-> NoErr, bb |-> response.Body]

\* ioutil.ReadAll(resp.Body) in sync mode: the value and the channel it goes to
ReadAll(response) ==
  IF response.readErr
    THEN [chan |-> "error", err |-> Err("read body"), bb |-> Malformed]
    ELSE [chan |-> "response", err |-> NoErr, bb |-> response.Body]

\* variant: the body of the response is read and put on the channels in
\* async mode too
PostOK_BodyAlways(r, response) ==
  /\ pc[r] = "inflight"
  /\ response \in Responses(c, r)
  /\ resp' = [resp EXCEPT ![r] = response]
  /\ LET rd == ReadAll(response) IN
       IF rd.chan = "error"
         THEN /\ Len(errorChan[r]) < ChanCap
              /\ errorChan' = [errorChan EXCEPT ![r] = Append(@, rd.err)]
              /\ UNCHANGED responseChan
         ELSE /\ Len(responseChan[r]) < ChanCap
              /\ responseChan' = [responseChan EXCEPT ![r] = Append(@, rd.bb)]
              /\ UNCHANGED errorChan
  /\ pc' = [pc EXCEPT ![r] = "select"]
  /\ UNCHANGED <<cfg, c, pl, key, ctx, lpc, subCh, elapsed, lres, rcvd, ret,
                 win, npub, lastPub>>

\* httpClient.Post returns a response; in sync mode its body is read and put
\* on responseChan (a read error on errorChan)
PostOK(r, response) ==
  /\ pc[r] = "inflight"
  /\ response \in Responses(c, r)
  /\ resp' = [resp EXCEPT ![r] = response]
  /\ IF ~IsAsync(c)
       THEN LET rd == ReadAll(response) IN
            IF rd.chan = "error"
              THEN /\ Len(errorChan[r]) < ChanCap
                   /\ errorChan' = [errorChan EXCEPT ![r] = Append(@, rd.err)]
                   /\ UNCHANGED responseChan
              ELSE /\ Len(responseChan[r]) < ChanCap
                   /\ responseChan' = [responseChan EXCEPT ![r] = Append(@, rd.bb)]
                   /\ UNCHANGED errorChan
       ELSE UNCHANGED <<responseChan, errorChan>>
  /\ pc' = [pc EXCEPT ![r] = "select"]
  /\ UNCHANGED <<cfg, c, pl, key, ctx, lpc, subCh, elapsed, lres, rcvd, ret,
                 win, npub, lastPub>>

\* variant: the select on errorChan runs while the POST is still out
SelectError_Early(r) ==
  /\ pc[r] \in {"inflight", "select"}
  /\ errorChan[r] # <<>>
  /\ LET out == SelectErr(Head(errorChan[r])) IN
       ret' = [ret EXCEPT ![r] = CheckResult(out.ans, out.err)]
  /\ errorChan' = [errorChan EXCEPT ![r] = Tail(@)]
  /\ pc' = [pc EXCEPT ![r] = "returned"]
  /\ UNCHANGED <<cfg, c, pl, key, ctx, lpc, subCh, elapsed, lres, rcvd,
                 responseChan, resp, win, npub, lastPub>>

\* the final select of request, the case of errorChan, and the return of <Op>Req
SelectError(r) ==
  /\ pc[r] = "select"
  /\ errorChan[r] # <<>>
  /\ LET out == SelectErr(Head(errorChan[r])) IN
       ret' = [ret EXCEPT ![r] = CheckResult(out.ans, out.err)]
  /\ errorChan' = [errorChan EXCEPT ![r] = Tail(@)]
  /\ pc' = [pc EXCEPT ![r] = "returned"]
  /\ UNCHANGED <<cfg, c, pl, key, ctx, lpc, subCh, elapsed, lres, rcvd,
                 responseChan, resp, win, npub, lastPub>>

\* the final select of request, the case of responseChan, and the return of <Op>Req
SelectResponse(r) ==
  /\ pc[r] = "select"
  /\ responseChan[r] # <<>>
  /\ LET out == SelectBody(Head(responseChan[r])) IN
       ret' = [ret EXCEPT ![r] = CheckResult(out.ans, out.err)]
  /\ responseChan' = [responseChan EXCEPT ![r] = Tail(@)]
  /\ pc' = [pc EXCEPT ![r] = "returned"]
  /\ UNCHANGED <<cfg, c, pl, key, ctx, lpc, subCh, elapsed, lres, rcvd,
                 errorChan, resp, win, npub, lastPub>>

\* the caller cancels the context it passed to <Op>Req; request and readAsync
\* never look at it
Cancel(r) ==
  /\ pc[r] \in {"post", "inflight", "select"}
  /\ ~ctx[r].done
  /\ ctx' = [ctx EXCEPT ![r] = [done |-> TRUE,
                                early |-> elapsed[r] < c.asyncTimeout]]
  /\ UNCHANGED <<cfg, c, pc, pl, key, lpc, subCh, elapsed, lres, rcvd,
                 responseChan, errorChan, resp, ret, win, npub, lastPub>>

(***************************************************************************)
(* readAsync, the listener goroutine of an async request.                  *)
(***************************************************************************)
\* redisClient.Subscribe(key) and sub.Channel(): from here on a publish on
\* the key reaches ch; time.After starts the timer
Subscribe(r) ==
  /\ lpc[r] = "spawned"
  /\ lpc' = [lpc EXCEPT ![r] = "armed"]
  /\ subCh' = [subCh EXCEPT ![r] = <<>>]
  /\ elapsed' = [elapsed EXCEPT ![r] = 0]
  /\ UNCHANGED <<cfg, c, pc, pl, key, ctx, rcvd, lres, responseChan,
                 errorChan, resp, ret, win, npub, lastPub>>

\* variant: the timer fires at once
TimerDue_AtOnce(cl, e) == TRUE

\* the timer of time.After(c.asyncTimeout) has fired
TimerDue(cl, e) == e >= cl.asyncTimeout

\* select, case msg := <-ch; the deferred sub.Close() runs on return (what is
\* left in ch is never read)
ListenerRecv(r) ==
  /\ lpc[r] = "armed"
  /\ subCh[r] # <<>>
  /\ rcvd' = [rcvd EXCEPT ![r] = Head(subCh[r])]
  /\ lres' = [lres EXCEPT ![r] = [bb |-> Head(subCh[r]).Payload, err |-> NoErr]]
  /\ subCh' = [subCh EXCEPT ![r] = Tail(@)]
  /\ lpc' = [lpc EXCEPT ![r] = "send"]
  /\ UNCHANGED <<cfg, c, pc, pl, key, ctx, elapsed, responseChan, errorChan,
                 resp, ret, win, npub, lastPub>>

\* select, case <-time.After(c.asyncTimeout); the deferred sub.Close() runs
ListenerTimeout(r) ==
  /\ lpc[r] = "armed"
  /\ TimerDue(c, elapsed[r])
  /\ lres' = [lres EXCEPT ![r] = [bb |-> Malformed, err |-> ErrAsyncTimeout]]
  /\ lpc' = [lpc EXCEPT ![r] = "send"]
  /\ UNCHANGED <<cfg, c, pc, pl, key, ctx, subCh, elapsed, rcvd, responseChan,
                 errorChan, resp, ret, win, npub, lastPub>>

\* variant: the goroutine ends without sending the error readAsync returned
ListenerSend_ErrDropped(r) ==
  /\ lpc[r] = "send"
  /\ IF lres[r].err # NoErr
       THEN UNCHANGED <<errorChan, responseChan>>
       ELSE /\ Len(responseChan[r]) < ChanCap
            /\ responseChan' = [responseChan EXCEPT ![r] = Append(@, lres[r].bb)]
            /\ UNCHANGED errorChan
  /\ lpc' = [lpc EXCEPT ![r] = "done"]
  /\ UNCHANGED <<cfg, c, pc, pl, key, ctx, subCh, elapsed, lres, rcvd, resp,
                 ret, win, npub, lastPub>>

\* the goroutine sends what readAsync returned on errorChan or responseChan
\* and ends
ListenerSend(r) ==
  /\ lpc[r] = "send"
  /\ IF lres[r].err # NoErr
       THEN /\ Len(errorChan[r]) < ChanCap
            /\ errorChan' = [errorChan EXCEPT ![r] = Append(@, lres[r].err)]
            /\ UNCHANGED responseChan
       ELSE /\ Len(responseChan[r]) < ChanCap
            /\ responseChan' = [responseChan EXCEPT ![r] = Append(@, lres[r].bb)]
            /\ UNCHANGED errorChan
  /\ lpc' = [lpc EXCEPT ![r] = "done"]
  /\ UNCHANGED <<cfg, c, pc, pl, key, ctx, subCh, elapsed, lres, rcvd, resp,
                 ret, win, npub, lastPub>>

\* one tick of the clock: every running timer advances
Tick ==
  /\ \E r \in Reqs : lpc[r] = "armed" /\ elapsed[r] < c.asyncTimeout
  /\ elapsed' = [r \in Reqs |->
                   IF lpc[r] = "armed" /\ elapsed[r] < c.asyncTimeout
                     THEN elapsed[r] + 1 ELSE elapsed[r]]
  /\ UNCHANGED <<cfg, c, pc, pl, key, ctx, lpc, subCh, lres, rcvd,
                 responseChan, errorChan, resp, ret, win, npub, lastPub>>

(***************************************************************************)
(* HandleAsync<Op>Ans and writeAsync, the publishing side.                 *)
(***************************************************************************)
\* the open subscriptions a Redis publish on channel k is delivered to
Subscribers(k) == { r \in Reqs : lpc[r] = "armed" /\ key[r] = k }

\* the callers that wait, subscribed, for the answer of operation op and
\* transaction id tid
Waiters(op, tid) ==
  { r \in Reqs : lpc[r] = "armed" /\ pl[r].op = op /\ pl[r].TransactionID = tid }

\* the callers whose POST is out, whose timer has not fired and that have
\* nothing delivered yet
InWindow(k) ==
  { r \in Reqs : /\ key[r] = k
                 /\ pc[r] \in {"inflight", "select"}
                 /\ lpc[r] \in {"spawned", "armed"}
                 /\ elapsed[r] < c.asyncTimeout
                 /\ subCh[r] = <<>> }

\* what can become of a writeAsync call: the answer does not marshal; Redis
\* takes the publish and replies; Redis refuses it, or is not reached; Redis
\* takes and delivers the publish but its reply is lost, so that Publish
\* reports an error
PubFates == {"marshal error", "published", "publish error", "reply lost"}

\* c.redisClient.Publish on the nil redisClient of a client that is not
\* async: the call panics with a nil pointer dereference and returns nothing
Panic == Err("panic: nil pointer dereference")

\* variant: the answer is published a second time
writeAsync_Twice(cl, typ, ans, fate) ==
  LET msg == [Channel |-> getAsyncKey(typ, ans.TransactionID),
              Payload |-> Marshal(ans)]
  IN CASE fate = "marshal error"
            -> [msgs |-> <<>>, err |-> Err("marshal answer error")]
       [] fate # "marshal error" /\ ~IsAsync(cl)
            -> [msgs |-> <<>>, err |-> Panic]
       [] fate = "published" /\ IsAsync(cl)
            -> [msgs |-> <<msg, msg>>, err |-> NoErr]
       [] fate = "publish error" /\ IsAsync(cl)
            -> [msgs |-> <<>>, err |-> Err("publish answer error")]
       [] fate = "reply lost" /\ IsAsync(cl)
            -> [msgs |-> <<msg, msg>>, err |-> Err("publish answer error")]

\* writeAsync(ctx, typ, pl): marshal the answer and publish it once on the key
\* of (typ, pl.TransactionID). The result is the messages Redis took from
\* the call and the error returned (Panic when the call panics)
writeAsync(cl, typ, ans, fate) ==
  LET msg == [Channel |-> getAsyncKey(typ, ans.TransactionID),
              Payload |-> Marshal(ans)]
  IN CASE fate = "marshal error"
            -> [msgs |-> <<>>, err |-> Err("marshal answer error")]
       [] fate # "marshal error" /\ ~IsAsync(cl)
            -> [msgs |-> <<>>, err |-> Panic]
       [] fate = "published" /\ IsAsync(cl)
            -> [msgs |-> <<msg>>, err |-> NoErr]
       [] fate = "publish error" /\ IsAsync(cl)
            -> [msgs |-> <<>>, err |-> Err("publish answer error")]
       [] fate = "reply lost" /\ IsAsync(cl)
            -> [msgs |-> <<msg>>, err |-> Err("publish answer error")]

\* HandleAsync<Op>Ans(ctx, ans): writeAsync with the request type of the
\* operation, on any client; Redis delivers what was published to the open
\* subscriptions of the key
HandleAsyncAns(op, tid, res, fate) ==
  /\ npub < MaxPublish
  /\ LET ans == AnsPayload(AnsTypeOf(op), tid, res)
         w == writeAsync(c, HandleTypeOf(op), ans, fate)
         ToSub(r) == SelectSeq(w.msgs, LAMBDA m : r \in Subscribers(m.Channel))
     IN subCh' = [r \in Reqs |-> subCh[r] \o ToSub(r)]
  /\ npub' = npub + 1
  /\ UNCHANGED <<cfg, c, pc, pl, key, ctx, lpc, elapsed, lres, rcvd,
                 responseChan, errorChan, resp, ret>>

\* the record of a HandleAsync<Op>Ans call: the fate of its publish, the
\* error it returned, the callers that waited for the answer, the callers it
\* was delivered to and, per caller, the payloads published in its window
Observe(op, tid, res, fate) ==
  LET ans == AnsPayload(AnsTypeOf(op), tid, res)
      b == Marshal(ans)
      k == getAsyncKey(HandleTypeOf(op), ans.TransactionID)
      w == writeAsync(c, HandleTypeOf(op), ans, fate)
  IN /\ win' = [r \in Reqs |->
                  IF w.msgs # <<>> /\ r \in InWindow(k)
                    THEN win[r] \cup {b} ELSE win[r]]
     /\ lastPub' = [fate |-> fate, err |-> w.err, subs |-> Waiters(op, tid),
                    to |-> IF w.msgs # <<>> THEN Subscribers(k) ELSE {}]

\* the HandleAsync<Op>Ans calls made: for the operations of the requests
\* under way and for one operation more, with any transaction id and any
\* fate; the result of the answer is varied where the answer is delivered
PubOps == {"PRStart"} \cup { pl[r].op : r \in { q \in Reqs : pc[q] # "idle" } }

HandlerCalls ==
  { hc \in [op : PubOps, tid : TIDs, res : PubResults, fate : PubFates] :
      hc.fate \in {"marshal error", "publish error"}
        => hc.res.ResultCode = Success }

(***************************************************************************)
(* The specification.                                                      *)
(***************************************************************************)
\* one caller, any operation, any mode; the caller's context stays live
Next ==
  \/ \E r \in Solo, op \in Ops, tid \in TIDs, marshals \in BOOLEAN :
       Call(r, op, tid, marshals)
  \/ \E r \in Reqs : PostIssue(r)
  \/ \E r \in Reqs : PostFail(r)
  \/ \E r \in Reqs :
       pc[r] = "inflight" /\ \E response \in Responses(c, r) : PostOK(r, response)
  \/ \E r \in Reqs : SelectError(r)
  \/ \E r \in Reqs : SelectResponse(r)
  \/ \E r \in Reqs : Subscribe(r)
  \/ \E r \in Reqs : ListenerRecv(r)
  \/ \E r \in Reqs : ListenerTimeout(r)
  \/ \E r \in Reqs : ListenerSend(r)
  \/ Tick
  \/ \E hc \in HandlerCalls :
       /\ HandleAsyncAns(hc.op, hc.tid, hc.res, hc.fate)
       /\ Observe(hc.op, hc.tid, hc.res, hc.fate)

Spec == Init /\ [][Next]_vars

\* the same with callers that may cancel the context they passed
NextCancel ==
  \/ Next
  \/ \E r \in Reqs : Cancel(r)

SpecCancel == Init /\ [][NextCancel]_vars

\* the POST of caller r returns, with an error or with a response
PostReturns(r) ==
  \/ PostFail(r)
  \/ pc[r] = "inflight" /\ \E response \in Responses(c, r) : PostOK(r, response)

\* the scheduling the liveness of a call rests on: the calling goroutine and
\* the listener goroutine keep running (the Go scheduler starves no runnable
\* goroutine), the blocking POST returns, time passes and a timer that is due
\* fires
Fairness ==
  /\ WF_vars(Tick)
  /\ \A r \in Reqs :
       /\ WF_vars(PostIssue(r))
       /\ WF_vars(PostReturns(r))
       /\ WF_vars(SelectError(r) \/ SelectResponse(r))
       /\ WF_vars(Subscribe(r))
       /\ WF_vars(ListenerRecv(r) \/ ListenerTimeout(r))
       /\ WF_vars(ListenerSend(r))

\* one caller, any operation, any mode, without the record of the handler
\* calls
NextLive ==
  \/ \E r \in Solo, op \in Ops, tid \in TIDs, marshals \in BOOLEAN :
       Call(r, op, tid, marshals)
  \/ \E r \in Reqs : PostIssue(r)
  \/ \E r \in Reqs : PostReturns(r)
  \/ \E r \in Reqs : SelectError(r)
  \/ \E r \in Reqs : SelectResponse(r)
  \/ \E r \in Reqs : Subscribe(r)
  \/ \E r \in Reqs : ListenerRecv(r)
  \/ \E r \in Reqs : ListenerTimeout(r)
  \/ \E r \in Reqs : ListenerSend(r)
  \/ Tick
  \/ \E hc \in HandlerCalls :
       /\ HandleAsyncAns(hc.op, hc.tid, hc.res, hc.fate)
       /\ UNCHANGED <<win, lastPub>>

SpecLive == Init /\ [][NextLive]_vars /\ Fairness

\* an async client and two concurrent callers of the same operation with
\* distinct transaction ids; the peer acknowledges with an empty body and
\* publishes Success answers of that operation, of any transaction id
AsyncConfigs == { cf \in Configs : ~cf.tls /\ cf.RedisClient }

InitPair == Init /\ cfg \in AsyncConfigs

\* the second caller calls after the first (the callers are interchangeable)
\* with the same operation and another transaction id
PairCall(r, op, tid) ==
  /\ r \notin Solo => \A s \in Solo : pc[s] # "idle"
  /\ \A s \in Reqs \ {r} :
       pc[s] # "idle" => (pl[s].op = op /\ pl[s].TransactionID # tid)

Ack == [StatusCode |-> 200, Body |-> Malformed, readErr |-> FALSE]

NextPair ==
  \/ \E r \in Reqs, op \in Ops, tid \in TIDs : \E marshals \in BOOLEAN :
         PairCall(r, op, tid) /\ Call(r, op, tid, marshals)
  \/ \E r \in Reqs : PostIssue(r)
  \/ \E r \in Reqs : PostFail(r)
  \/ \E r \in Reqs : PostOK(r, Ack)
  \/ \E r \in Reqs : SelectError(r)
  \/ \E r \in Reqs : SelectResponse(r)
  \/ \E r \in Reqs : Subscribe(r)
  \/ \E r \in Reqs : ListenerRecv(r)
  \/ \E r \in Reqs : ListenerTimeout(r)
  \/ \E r \in Reqs : ListenerSend(r)
  \/ Tick
  \/ \E op \in Ops, tid \in TIDs :
       /\ \A s \in Reqs : pc[s] # "idle" => pl[s].op = op
       /\ HandleAsyncAns(op, tid, [ResultCode |-> Success, Description |-> ""],
                         "published")
       /\ UNCHANGED <<win, lastPub>>

SpecPair == InitPair /\ [][NextPair]_vars

TypeOK ==
  /\ \A r \in Reqs : Len(responseChan[r]) + Len(errorChan[r]) <= ChanCap
  /\ npub \in 0..MaxPublish

(***************************************************************************)
(* Properties.                                                             *)
(***************************************************************************)
Called(r) == pc[r] # "idle"
Returned(r) == pc[r] = "returned"
PostFailed(r) == Returned(r) /\ pl[r].marshals /\ resp[r] = NoResp
PostSucceeded(r) == resp[r] # NoResp
TransportFailure == [ans |-> ZeroAns, err |-> Err("http post error")]

\* C1: in async mode the subscription on the request's key is registered
\* before the POST of the request is issued: while the POST is out, the
\* listener has subscribed.
C1_SubscribedBeforePost ==
  \A r \in Reqs : (IsAsync(c) /\ pc[r] = "inflight") => lpc[r] # "spawned"

\* C2: in async mode, when an answer was published on the request's key after
\* the POST was issued and before the timer was due, the operation returns
\* that answer and not ErrAsyncTimeout (stated for the requests whose POST
\* succeeded and whose listener left no delivered message unread).
C2_PublishedAnswerReturned ==
  \A r \in Reqs :
    (IsAsync(c) /\ Returned(r) /\ PostSucceeded(r) /\ win[r] # {}
       /\ subCh[r] = <<>>)
      => /\ ret[r].err # ErrAsyncTimeout
         /\ ret[r].ans \in { Unmarshal(b).ans : b \in win[r] }

\* C3: of two async requests of the same message type with distinct
\* transaction ids (two calls whose payloads marshalled, so that both
\* requests were made), neither receives nor returns an answer published on
\* the key of the other.
C3_NoCrossDelivery ==
  \A r \in Reqs : \A s \in Reqs \ {r} :
    ( /\ Called(r) /\ Called(s)
      /\ pl[r].marshals /\ pl[s].marshals
      /\ pl[r].MessageType = pl[s].MessageType
      /\ pl[r].TransactionID # pl[s].TransactionID )
      => /\ \A i \in 1..Len(subCh[r]) : subCh[r][i].Channel # key[s]
         /\ rcvd[r].Channel # key[s]
         /\ (Returned(r) /\ ret[r].err = NoErr)
              => /\ rcvd[r] # NoMsg
                 /\ ret[r].ans = Unmarshal(rcvd[r].Payload).ans
                 /\ ret[r].ans.TransactionID # pl[s].TransactionID

\* both requests have returned the answers of their own transactions
C3_Witness ==
  \E r \in Reqs : \E s \in Reqs \ {r} :
    /\ Returned(r) /\ Returned(s)
    /\ pl[r].MessageType = pl[s].MessageType
    /\ pl[r].TransactionID # pl[s].TransactionID
    /\ ret[r].err = NoErr /\ ret[s].err = NoErr
    /\ npub = 2

\* C4: in async mode, when the POST succeeded and the listener received
\* nothing (in particular when nothing was published on the key), the
\* operation returns exactly ErrAsyncTimeout, and the listener never ends with
\* ErrAsyncTimeout before the configured AsyncTimeout has elapsed on its timer.
C4_TimeoutAfterAsyncTimeout ==
  \A r \in Reqs :
    /\ (IsAsync(c) /\ Returned(r) /\ PostSucceeded(r) /\ rcvd[r] = NoMsg)
         => ret[r] = [ans |-> ZeroAns, err |-> ErrAsyncTimeout]
    /\ (lres[r].err = ErrAsyncTimeout \/ ret[r].err = ErrAsyncTimeout)
         => elapsed[r] >= cfg.AsyncTimeout

\* the request returned ErrAsyncTimeout and no answer was ever published
C4_Witness ==
  \E r \in Reqs :
    /\ Returned(r) /\ PostSucceeded(r) /\ npub = 0
    /\ ret[r].err = ErrAsyncTimeout /\ elapsed[r] = cfg.AsyncTimeout

\* C5: in async mode, when a request operation has returned, its subscription
\* is closed and its listener goroutine has finished.
C5_ListenerDoneOnReturn ==
  \A r \in Reqs : (IsAsync(c) /\ Returned(r)) => lpc[r] = "done"

\* C6 (as claimed): in async mode a request whose POST failed at the
\* transport level still waits for the race: it does not return the transport
\* failure once an answer has reached its subscription.
C6_PostFailureStillWaits ==
  \A r \in Reqs :
    (IsAsync(c) /\ PostFailed(r)) => (subCh[r] = <<>> /\ rcvd[r] = NoMsg)

\* C6 (amended): a request waits in the final select only after the POST has
\* returned a response; when the POST fails at the transport level the
\* operation has returned, and what it returned is the transport failure and
\* no answer, whether or not an answer was published or delivered.
C6_PostFailureReturnsAtOnce ==
  \A r \in Reqs :
    /\ pc[r] = "select" => PostSucceeded(r)
    /\ PostFailed(r) => ret[r] = TransportFailure

\* the POST failed, the request returned the transport failure, and its
\* listener went on to receive the published answer
C6_Witness ==
  \E r \in Reqs :
    /\ IsAsync(c) /\ PostFailed(r) /\ ret[r] = TransportFailure
    /\ rcvd[r] # NoMsg /\ lpc[r] = "done"

\* C7: when the caller's context is cancelled while the listener's timer is
\* not yet due, the wait is aborted without waiting for the async timeout:
\* the listener does not end with ErrAsyncTimeout.
C7_CancelAbortsWait ==
  \A r \in Reqs :
    (ctx[r].done /\ ctx[r].early) => lres[r].err # ErrAsyncTimeout

\* the body the final select of a returned request decoded: in sync mode the
\* body of the HTTP response, in async mode the payload the listener received
HasBody(r) ==
  /\ Returned(r) /\ PostSucceeded(r)
  /\ IF IsAsync(c) THEN rcvd[r] # NoMsg ELSE ~resp[r].readErr
AnswerBody(r) == IF IsAsync(c) THEN rcvd[r].Payload ELSE resp[r].Body

\* C8: a well-formed answer is returned without error exactly when its result
\* code is Success; with any other result code the operation returns the
\* answer and an application failure that carries the answer's result code
\* and description.
C8_ResultCodeDecides ==
  \A r \in Reqs :
    /\ (HasBody(r) /\ AnswerBody(r).wf)
         => /\ ret[r].ans.Result.ResultCode = AnswerBody(r).code
            /\ ret[r].ans.Result.Description = AnswerBody(r).desc
            /\ (AnswerBody(r).code = Success) <=> (ret[r].err = NoErr)
            /\ (AnswerBody(r).code # Success)
                 => ret[r].err = [kind |-> "response error",
                                  code |-> AnswerBody(r).code,
                                  desc |-> AnswerBody(r).desc]
    /\ (Returned(r) /\ ret[r].err = NoErr)
         => (HasBody(r) /\ AnswerBody(r).wf /\ AnswerBody(r).code = Success)

\* a request has returned the application failure of a non-success answer
\* that has a description
C8_Witness ==
  \E r \in Reqs :
    /\ HasBody(r) /\ AnswerBody(r).wf
    /\ AnswerBody(r).code = "500" /\ AnswerBody(r).desc = "server error"
    /\ ret[r].err.kind = "response error"

\* C9: in sync mode the operation returns the decoding of the body of the
\* POST's response whatever the HTTP status is, and a transport failure of
\* the POST is returned as the transport failure with no answer decoded.
C9_SyncAnswerIsResponseBody ==
  \A r \in Reqs :
    (~IsAsync(c) /\ Returned(r))
      => /\ PostFailed(r) => ret[r] = TransportFailure
         /\ (PostSucceeded(r) /\ ~resp[r].readErr)
              => /\ ret[r].ans = Unmarshal(resp[r].Body).ans
                 /\ resp[r].Body.wf => ret[r].err.kind \in {"nil", "response error"}
                 /\ ~resp[r].Body.wf => ret[r].err.kind = "unmarshal response error"

\* a sync request has returned, without error, the answer carried by a
\* response of status 500
C9_Witness ==
  \E r \in Reqs :
    /\ ~IsAsync(c) /\ Returned(r) /\ PostSucceeded(r)
    /\ resp[r].StatusCode = 500 /\ resp[r].Body.wf
    /\ ret[r].err = NoErr /\ ret[r].ans = Unmarshal(resp[r].Body).ans

\* C10: the key on which HandleAsync<Op>Ans publishes an answer of
\* transaction id T is the key on which <Op>Req subscribed for a request of
\* transaction id T: a publish that succeeded was delivered to every caller
\* that waited, subscribed, for that operation and transaction id (the key
\* is computed for the requests whose payload marshals).
C10_HandlerKeyIsRequestKey ==
  /\ lastPub.err = NoErr => lastPub.subs \subseteq lastPub.to
  /\ \A r \in Reqs :
       (IsAsync(c) /\ Called(r) /\ pl[r].marshals)
         => key[r] = getAsyncKey(HandleTypeOf(pl[r].op), pl[r].TransactionID)

\* a handler has published the answer a subscribed caller waited for
C10_Witness ==
  /\ lastPub.err = NoErr
  /\ lastPub.subs # {}
  /\ \E r \in lastPub.subs : rcvd[r] # NoMsg \/ subCh[r] # <<>>

(***************************************************************************)
(* getAsyncKey on its own: the callers' slots hold the inputs of a call    *)
(* of getAsyncKey (message type and transaction id, in pl) and the key it  *)
(* returned (in key).                                                      *)
(***************************************************************************)
\* the message types of the protocol
MessageTypes ==
  {PRStartReq, PRStopReq, XmitDataReq, ProfileReq, HomeNSReq,
   PRStartAns, PRStopAns, XmitDataAns, ProfileAns, HomeNSAns}

\* transaction ids of one to ten decimal digits, among them ids of which one
\* is a decimal prefix or suffix of another and the largest id below 2^31
KeyIds == TIDs \cup {1, 9, 10, 11, 101, 110, 2147483647}

KeyCall(r, typ, id) ==
  /\ pl' = [pl EXCEPT ![r] = [NoPl EXCEPT !.MessageType = typ,
                                          !.TransactionID = id]]
  /\ key' = [key EXCEPT ![r] = getAsyncKey(typ, id)]
  /\ UNCHANGED <<cfg, c, pc, ctx, lpc, subCh, elapsed, lres, rcvd,
                 responseChan, errorChan, resp, ret, win, npub, lastPub>>

NextKeys == \E r \in Reqs, typ \in MessageTypes, id \in KeyIds : KeyCall(r, typ, id)

SpecKeys == Init /\ [][NextKeys]_vars

\* C11: getAsyncKey is total, deterministic and collision-free: every pair of
\* a message type and a transaction id has a key (the prefix, the type, a
\* colon and the decimal digits of the id), and two calls return the same
\* key exactly when they have the same message type and the same id.
C11_KeyCollisionFree ==
  \A r \in Reqs : \A s \in Reqs :
    (key[r] # <<>> /\ key[s] # <<>>)
      => /\ Len(key[r]) > Len(KeyPrefix) + Len(pl[r].MessageType) + 1
         /\ SubSeq(key[r], 1, Len(KeyPrefix)) = KeyPrefix
         /\ (key[r] = key[s])
              <=> ( /\ pl[r].MessageType = pl[s].MessageType
                    /\ pl[r].TransactionID = pl[s].TransactionID )

\* two calls with the same message type and the ids 1 and 11, of which the
\* first is a prefix and a suffix of the second
C11_Witness ==
  \E r \in Reqs : \E s \in Reqs \ {r} :
    /\ key[r] # <<>> /\ key[s] # <<>>
    /\ pl[r].MessageType = pl[s].MessageType
    /\ pl[r].TransactionID = 1 /\ pl[s].TransactionID = 11
    /\ key[r] # key[s]

\* C12: whatever the configuration NewClient succeeded on, with or without
\* TLS material, GetSenderID and GetReceiverID return the configured ids and
\* every outgoing request carries the configured SenderID and ReceiverID,
\* protocol version 1.0 and the message type of its operation.
C12_RequestsStamped ==
  \A r \in Reqs :
    Called(r)
      => /\ GetSenderID(c) = cfg.SenderID
         /\ GetReceiverID(c) = cfg.ReceiverID
         /\ pl[r].SenderID = cfg.SenderID
         /\ pl[r].ReceiverID = cfg.ReceiverID
         /\ pl[r].ProtocolVersion = ProtocolVersion1_0
         /\ pl[r].MessageType = ReqTypeOf(pl[r].op)

\* C13: the mode is fixed at construction: IsAsync is true exactly when the
\* configuration's RedisClient was set, a request of a client configured with
\* a RedisClient runs the async scheme (a key and a listener) with the
\* configured AsyncTimeout, and no request operation changes the client.
C13_ModeFromConfig ==
  /\ c = NewClient(cfg)
  /\ \A r \in Reqs :
       Called(r)
         => /\ IsAsync(c) <=> cfg.RedisClient
            /\ (cfg.RedisClient /\ pl[r].marshals)
                 => /\ key[r] # <<>> /\ lpc[r] # "none"
                    /\ c.asyncTimeout = cfg.AsyncTimeout

(***************************************************************************)
(* SendAnswer: a caller's slot holds the answer sent (its message type and *)
(* transaction id, in pl), the response of the POST (in resp; NoResp when  *)
(* the POST failed) and the error returned (in ret).                       *)
(***************************************************************************)
\* fmt.Errorf("expected: 200, got: %d (%s)", resp.StatusCode, string(bb))
StatusErr(status, bb) == [kind |-> "expected: 200", status |-> status, body |-> bb]

\* the outcomes of httpClient.Post in SendAnswer: an error, or a response of
\* some status whose body reads or fails to read
SendStatuses == Statuses \cup {201}

SendPosts(ans) ==
  {[ok |-> FALSE, response |-> NoResp]} \cup
  { [ok |-> TRUE, response |-> rs] :
      rs \in [StatusCode : SendStatuses,
              Body : {Malformed, Marshal(ans)},
              readErr : BOOLEAN] }

\* variant: every status below 300 counts as success
SendAnswerResult_Any2xx(post) ==
  IF ~post.ok THEN Err("http post error")
  ELSE IF post.response.StatusCode >= 300
    THEN IF post.response.readErr
           THEN Err("read body error")
           ELSE StatusErr(post.response.StatusCode, post.response.Body)
    ELSE NoErr

\* the error SendAnswer returns for an outcome of its POST
SendAnswerResult(post) ==
  IF ~post.ok THEN Err("http post error")
  ELSE IF post.response.StatusCode # 200
    THEN IF post.response.readErr
           THEN Err("read body error")
           ELSE StatusErr(post.response.StatusCode, post.response.Body)
    ELSE NoErr

\* SendAnswer(ctx, pl): marshal the answer (when json.Marshal rejects it,
\* marshals is FALSE, the wrapped error is returned and nothing is posted),
\* POST it and return by the status
SendAnswer(r, op, tid, res, marshals, post) ==
  /\ pc[r] = "idle"
  /\ post \in SendPosts(AnsPayload(AnsTypeOf(op), tid, res))
  /\ pl' = [pl EXCEPT ![r] = [NoPl EXCEPT !.op = "SendAnswer",
                                          !.MessageType = AnsTypeOf(op),
                                          !.TransactionID = tid,
                                          !.marshals = marshals]]
  /\ IF ~marshals
       THEN /\ UNCHANGED resp
            /\ ret' = [ret EXCEPT ![r] = [ans |-> ZeroAns,
                                          err |-> Err("json marshal error")]]
       ELSE /\ resp' = [resp EXCEPT ![r] = post.response]
            /\ ret' = [ret EXCEPT ![r] = [ans |-> ZeroAns,
                                          err |-> SendAnswerResult(post)]]
  /\ pc' = [pc EXCEPT ![r] = "returned"]
  /\ UNCHANGED <<cfg, c, key, ctx, lpc, subCh, elapsed, lres, rcvd,
                 responseChan, errorChan, win, npub, lastPub>>

NextSend ==
  \E r \in Reqs, op \in Ops, tid \in TIDs, res \in Results, marshals \in BOOLEAN :
    \E post \in SendPosts(AnsPayload(AnsTypeOf(op), tid, res)) :
      SendAnswer(r, op, tid, res, marshals, post)

SpecSend == Init /\ [][NextSend]_vars

\* C14 (as claimed): SendAnswer returns success exactly when its POST
\* completed and the response's status is 200; with any other status it
\* returns a failure that carries the status code and the response's body;
\* when the POST fails at the transport level it returns the transport
\* failure.
C14_OtherStatusCarriesBody ==
  \A r \in Reqs :
    Returned(r)
      => /\ (ret[r].err = NoErr)
              <=> (resp[r] # NoResp /\ resp[r].StatusCode = 200)
         /\ ~pl[r].marshals
              => (resp[r] = NoResp /\ ret[r].err = Err("json marshal error"))
         /\ (pl[r].marshals /\ resp[r] = NoResp)
              => ret[r].err = Err("http post error")
         /\ (resp[r] # NoResp /\ resp[r].StatusCode # 200)
              => ret[r].err = StatusErr(resp[r].StatusCode, resp[r].Body)

\* C14 (amended): SendAnswer returns success exactly when its POST completed
\* and the response's status is 200; with any other status it returns a
\* failure: the one that carries the status code and the response's body
\* when the body was read, the failure of the read otherwise; when the POST
\* fails at the transport level it returns the transport failure (an answer
\* that does not marshal is not posted and returns the marshal failure).
C14_SendAnswerByStatus ==
  \A r \in Reqs :
    Returned(r)
      => /\ (ret[r].err = NoErr)
              <=> (resp[r] # NoResp /\ resp[r].StatusCode = 200)
         /\ ~pl[r].marshals
              => (resp[r] = NoResp /\ ret[r].err = Err("json marshal error"))
         /\ (pl[r].marshals /\ resp[r] = NoResp)
              => ret[r].err = Err("http post error")
         /\ (resp[r] # NoResp /\ resp[r].StatusCode # 200 /\ ~resp[r].readErr)
              => ret[r].err = StatusErr(resp[r].StatusCode, resp[r].Body)
         /\ (resp[r] # NoResp /\ resp[r].StatusCode # 200 /\ resp[r].readErr)
              => ret[r].err = Err("read body error")

\* SendAnswer has returned the failure of a response of status 201, with the
\* status and the body of the response
C14_Witness ==
  \E r \in Reqs :
    /\ Returned(r) /\ pl[r].op = "SendAnswer"
    /\ resp[r].StatusCode = 201 /\ resp[r].Body.wf
    /\ ret[r].err.kind = "expected: 200"
    /\ ret[r].err.status = 201 /\ ret[r].err.body = resp[r].Body

\* the messages delivered so far to the subscription of caller r
Delivered(r) == (IF rcvd[r] # NoMsg THEN <<rcvd[r]>> ELSE <<>>) \o subCh[r]

\* C15: a HandleAsync<Op>Ans call publishes at most once, on the key built
\* from the request type of its operation and the transaction id of the
\* answer, and returns success only if the publish succeeded; a failed
\* publish (refused, or taken with its reply lost) is returned as the publish
\* failure, which is no other kind of failure, and is not tried again. A
\* call that publishes nothing (the answer does not marshal, the publish is
\* refused, or the client has no Redis client and the call panics) delivers
\* nothing and does not return success.
C15_PublishOnceOnAnswerKey ==
  /\ lastPub.err = NoErr => (IsAsync(c) /\ lastPub.fate = "published")
  /\ (IsAsync(c) /\ lastPub.fate \in {"publish error", "reply lost"})
       => /\ lastPub.err = Err("publish answer error")
          /\ lastPub.err \notin {Err("http post error"), ErrAsyncTimeout,
                                 Err("unmarshal response error"),
                                 Err("marshal answer error"), Panic}
          /\ lastPub.err.kind # "response error"
  /\ (lastPub.fate \in {"marshal error", "publish error"} \/ ~IsAsync(c))
       => (lastPub.to = {} /\ lastPub.err # NoErr)
  /\ \A r \in Reqs :
       /\ Len(Delivered(r)) <= npub
       /\ \A i \in 1..Len(Delivered(r)) :
            \E op \in Ops :
              /\ Delivered(r)[i].Payload.typ = AnsTypeOf(op)
              /\ Delivered(r)[i].Channel
                   = getAsyncKey(ReqTypeOf(op), Delivered(r)[i].Payload.tid)

\* a publish has failed after an earlier one was delivered: the subscriber
\* holds the one message of the call that succeeded
C15_Witness ==
  /\ npub = 2 /\ lastPub.fate = "publish error"
  /\ lastPub.err = Err("publish answer error")
  /\ \E r \in Reqs : Len(Delivered(r)) = 1

\* C16: in async mode the answer a request operation returns is the decoding
\* of the payload of a message delivered on the request's key, and the two
\* result channels never hold anything but what the listener returned: the
\* body of the HTTP response is neither decoded as the answer nor put on a
\* result channel.
C16_AsyncAnswerFromKeyOnly ==
  \A r \in Reqs :
    IsAsync(c)
      => /\ (Returned(r) /\ (ret[r].err = NoErr \/ ret[r].ans # ZeroAns))
              => /\ rcvd[r] # NoMsg
                 /\ rcvd[r].Channel = key[r]
                 /\ ret[r].ans = Unmarshal(rcvd[r].Payload).ans
         /\ responseChan[r] # <<>>
              => /\ lpc[r] = "done" /\ rcvd[r] # NoMsg
                 /\ responseChan[r] = <<rcvd[r].Payload>>
         /\ errorChan[r] # <<>>
              => (lpc[r] = "done" /\ errorChan[r] = <<lres[r].err>>)

\* an async request has returned the non-success answer published on its key
\* although the body of the HTTP response held a success answer
C16_Witness ==
  \E r \in Reqs :
    /\ IsAsync(c) /\ Returned(r)
    /\ resp[r].Body.wf /\ resp[r].Body.code = Success
    /\ rcvd[r] # NoMsg /\ rcvd[r].Payload.code = "500"
    /\ ret[r].ans = Unmarshal(rcvd[r].Payload).ans
    /\ ret[r].ans.Result.ResultCode = "500"

\* C17: whenever a request operation returns an answer without error, in
\* sync or in async mode, the transaction id of the answer is the transaction
\* id of the request.
C17_AnswerTidIsRequestTid ==
  \A r \in Reqs :
    (Returned(r) /\ ret[r].err = NoErr)
      => ret[r].ans.TransactionID = pl[r].TransactionID

\* C18: every call of a request operation eventually returns, in both modes,
\* when the POST returns and a due timer fires: once the POST has returned a
\* response, exactly one value, an answer body or an error, becomes available
\* on the two result channels of the call (never more than one), so that the
\* final select does not block forever.
C18_EveryCallReturns ==
  /\ [](\A r \in Reqs : Len(responseChan[r]) + Len(errorChan[r]) <= 1)
  /\ \A r \in Reqs :
       /\ (pc[r] = "select")
            ~> (pc[r] = "select" /\ Len(responseChan[r]) + Len(errorChan[r]) = 1)
       /\ Called(r) ~> Returned(r)

\* an async request has waited in the final select with nothing available
\* yet and nothing published, and has returned
C18_Witness ==
  \E r \in Reqs :
    /\ IsAsync(c) /\ Returned(r) /\ PostSucceeded(r)
    /\ npub = 0 /\ ret[r].err = ErrAsyncTimeout
    /\ lpc[r] = "done" /\ responseChan[r] = <<>> /\ errorChan[r] = <<>>

\* a value is sent on a result channel of caller r in the step
SendsOn(r) ==
  Len(responseChan'[r]) + Len(errorChan'[r])
    > Len(responseChan[r]) + Len(errorChan[r])

\* the sender of a call that has not sent yet: the listener goroutine in
\* async mode, the calling goroutine after the POST in sync mode
HasToSend(r) == IF IsAsync(c) THEN lpc[r] = "send" ELSE pc[r] = "inflight"

\* C19: for every call at most one value in total is sent on responseChan and
\* errorChan, so that no sender blocks on them: a send is the only send of
\* its sender and adds one value to two empty channels, a listener about to
\* send finds the channels empty, and every listener that was started ends,
\* in particular the listener of an async request that has returned early
\* because its POST failed.
C19_OneSendNoSenderBlocks ==
  /\ [][\A r \in Reqs :
          SendsOn(r)
            => /\ HasToSend(r) /\ ~HasToSend(r)'
               /\ responseChan[r] = <<>> /\ errorChan[r] = <<>>
               /\ Len(responseChan'[r]) + Len(errorChan'[r]) = 1]_vars
  /\ [](\A r \in Reqs :
          /\ Len(responseChan[r]) <= ChanCap /\ Len(errorChan[r]) <= ChanCap
          /\ lpc[r] = "send" => (responseChan[r] = <<>> /\ errorChan[r] = <<>>)
          /\ lpc[r] = "done" => pc[r] # "idle")
  /\ \A r \in Reqs :
       /\ (lpc[r] \in {"spawned", "armed", "send"}) ~> (lpc[r] = "done")
       /\ (IsAsync(c) /\ PostFailed(r)) ~> (lpc[r] = "done")

\* the POST of an async request failed, the request returned, and its
\* listener has since sent the timeout error, which nobody reads, and ended
C19_Witness ==
  \E r \in Reqs :
    /\ IsAsync(c) /\ PostFailed(r) /\ ret[r] = TransportFailure
    /\ lpc[r] = "done" /\ errorChan[r] = <<ErrAsyncTimeout>>
    /\ responseChan[r] = <<>>

\* caller r returns in the step
Returns(r) == pc[r] # "returned" /\ pc'[r] = "returned"

TimedOut == [ans |-> ZeroAns, err |-> ErrAsyncTimeout]

\* C20 (as claimed): an async request returns no result before its POST has
\* returned, and a request whose listener's timer fired while the POST was
\* still out, with nothing delivered before, returns ErrAsyncTimeout as soon
\* as the POST returns, and not an answer published after the timer fired.
C20_TimeoutAsSoonAsPostReturns ==
  [][\A r \in Reqs :
       IsAsync(c)
         => /\ pc[r] \in {"post", "inflight"} => ret[r] = NoRet
            /\ (lres[r].err = ErrAsyncTimeout /\ pc[r] \in {"inflight", "select"}
                  /\ Returns(r))
                 => ret'[r] = TimedOut]_vars

\* C20 (amended): an async request returns no result (answer or
\* ErrAsyncTimeout) before its POST has returned a response: while the POST
\* is out nothing is returned, a return straight from the POST is the
\* transport failure, a call whose payload does not marshal returns the
\* marshal failure before any POST, and every other return is made by the
\* final select.
\* When the listener's timer fired (the listener took its timeout case) with
\* nothing received, whether the POST was still out or not, the error is
\* ready on errorChan once the listener has sent it, the final select
\* returns ErrAsyncTimeout, and an answer published after the timer fired is
\* neither delivered nor received nor returned.
C20_NoResultBeforePostReturns ==
  [][\A r \in Reqs :
       IsAsync(c)
         => /\ pc[r] \in {"post", "inflight"} => ret[r] = NoRet
            /\ (pc[r] = "inflight" /\ Returns(r))
                 => (ret'[r] = TransportFailure /\ resp'[r] = NoResp)
            /\ (pc[r] = "idle" /\ Returns(r))
                 => (~pl'[r].marshals /\ ret'[r].ans = ZeroAns
                       /\ ret'[r].err = Err("json marshal error"))
            /\ (Returns(r) /\ ret'[r].err \notin {Err("http post error"),
                                                   Err("json marshal error")})
                 => (pc[r] = "select" /\ PostSucceeded(r))
            /\ (lres[r].err = ErrAsyncTimeout /\ lpc[r] = "done"
                  /\ pc[r] \in {"inflight", "select"})
                 => errorChan[r] = <<ErrAsyncTimeout>>
            /\ (lres[r].err = ErrAsyncTimeout /\ pc[r] = "select" /\ Returns(r))
                 => ret'[r] = TimedOut
            /\ lres[r].err = ErrAsyncTimeout
                 => /\ rcvd[r] = NoMsg /\ rcvd'[r] = NoMsg
                    /\ subCh'[r] = subCh[r]]_vars

\* the listener's timer has fired and the timeout error is ready while the
\* POST is still out, and the answer published since was delivered to nobody
C20_Witness ==
  \E r \in Reqs :
    /\ IsAsync(c) /\ pc[r] = "inflight"
    /\ lpc[r] = "done" /\ lres[r].err = ErrAsyncTimeout
    /\ errorChan[r] = <<ErrAsyncTimeout>>
    /\ npub = 1 /\ lastPub.fate = "published" /\ lastPub.to = {} /\ subCh[r] = <<>>

=============================================================================
